---------------------------- MODULE Spec2Model ----------------------------
(***************************************************************************)
(* goresily: a circuit breaker (circuitbreaker.CircuitBreaker), a          *)
(* bulkhead (bulkhead.Bulkhead) and the executor that composes them        *)
(* (httpclient.Client.execute), modelled as one state machine.             *)
(*                                                                         *)
(* Callers are goroutines that invoke Client.execute over and over.  A     *)
(* caller's position is pc[p]:                                             *)
(*   "idle"  before its first call                                         *)
(*   "cs1"   holds cb.mu in the first critical section of Execute          *)
(*   "fn"    about to run fn (the bulkhead's select, or the operation)     *)
(*   "op"    the wrapped operation is running                              *)
(*   "post"  fn returned, waiting for cb.mu                                *)
(*   "cs2"   holds cb.mu in the second critical section of Execute         *)
(*   "done"  the call returned ret[p]                                      *)
(* Time is a discrete clock, now.  A timer of time.AfterFunc is pending in *)
(* timers until its goroutine takes cb.mu.                                 *)
(***************************************************************************)
EXTENDS Integers, Sequences, FiniteSets, Bags, TLC

\* ------------------------------------------------------------------ bounds

\* Last instant of the discrete clock.
MaxTime == 3
\* Number of calls of Client.execute made in one behaviour.
MaxCalls == 5

\* The concurrent callers.
Procs == {"p1", "p2"}

\* State (part_000:15-22)
Closed == "Closed"
Open == "Open"
HalfOpen == "HalfOpen"
States == {Closed, Open, HalfOpen}

\* The results of a call: nil, the operation's own failure, and the sentinels.
Nil == "nil"
OpErr == "opErr"
ErrOpen == "ErrOpen"
ErrFull == "ErrFull"
None == "none"

\* Holders of cb.mu other than the callers.
Free == "free"
TimerG == "timer"

\* The configurations the builders can produce (BreakerConfig, BulkheadConfig).
\* Without a breaker (or a bulkhead) its options are the builder's defaults.
BreakerConfigs ==
    [maxFailures : {1, 2}, window : {0, 2}, timeout : {1},
     trialRequests : {0, 2}, trialDuration : {0, 1}]
DefaultBreaker ==
    [maxFailures |-> 3, window |-> 0, timeout |-> 1,
     trialRequests |-> 0, trialDuration |-> 0]
BulkheadLimits == {1, 2}
DefaultLimit == 1

VARIABLES
    cfg,           \* the breaker's options, fixed by Build
    limit,         \* cap(bh.sem)
    hasCB, hasBH,  \* Client.CB != nil, Client.BH != nil
    now,           \* the clock
    state,         \* cb.state
    failureTimes,  \* cb.failureTimes
    trialCount,    \* cb.trialCount
    trialStart,    \* cb.trialStart
    mu,            \* holder of cb.mu, or Free
    timers,        \* bag of the deadlines of the pending time.AfterFunc timers
    notified,     \* arguments of the last two onStateChange calls, or None
    sem,           \* len(bh.sem)
    pc,            \* position of each caller
    snap,          \* Execute's local `state`
    err,           \* Execute's local `err`, the result of fn
    ret,           \* what the last call returned
    invoked,       \* whether the call invoked the wrapped operation
    streak,        \* history: times of the failures recorded in the Closed
                   \* branch since the last recorded success or trip
    tripped,       \* history: the threshold tripped and no timer ran since
    periodSucc,    \* history: successful trials of the current HalfOpen period
    inPeriod,      \* history: the caller was admitted in the current period
    calls,         \* history: number of calls of Client.execute so far
    enteredAt      \* history: time of the last change of cb.state

config == <<cfg, limit, hasCB, hasBH>>
breaker ==
    <<state, failureTimes, trialCount, trialStart, timers, notified, enteredAt>>
locals == <<pc, snap, err, ret, invoked>>
history == <<streak, tripped, periodSucc, inPeriod>>
vars == <<config, now, breaker, mu, sem, locals, history, calls>>

maxFailures == cfg.maxFailures
window == cfg.window
timeout == cfg.timeout
trialRequests == cfg.trialRequests
trialDuration == cfg.trialDuration

\* ----------------------------------------------------------------- helpers

\* Time.After
After(t, u) == t > u

\* The loop of recordFailure: the index of the first timestamp after cutoff.
RECURSIVE FirstAfter(_, _, _)
FirstAfter(ft, cutoff, i) ==
    IF i > Len(ft) \/ After(ft[i], cutoff) THEN i
    ELSE FirstAfter(ft, cutoff, i + 1)

\* recordFailure: append now, then drop the leading timestamps not after
\* now - window.
recordFailure(ft) ==
    LET appended == Append(ft, now)
        i == FirstAfter(appended, now - window, 1)
    IN  IF window > 0 THEN SubSeq(appended, i, Len(appended)) ELSE appended

\* A faulty IsFailure: only the operation's own error counts.
IsFailure_OperationOnly(e) == e = OpErr

\* `if err != nil`
IsFailure(e) == e # Nil

\* A faulty Result: the failure is swallowed.
Result_Swallowed(e) == Nil

\* `return err`: Execute returns what fn returned.
Result(e) == e

\* The threshold test of Execute's Closed branch.
ThresholdReached(ft) == Len(ft) >= maxFailures

\* The trial test of Execute's HalfOpen branch.
TrialComplete(n) == trialRequests = 0 \/ n >= trialRequests

\* A faulty TrialExpired: the trial window is one instant longer.
TrialExpired_OffByOne ==
    state = HalfOpen /\ trialDuration > 0
    /\ now - trialStart > trialDuration + 1

\* The expiry test of Execute's first critical section.
TrialExpired ==
    state = HalfOpen /\ trialDuration > 0 /\ now - trialStart > trialDuration

\* A faulty setState: the listener is called on every call.
setState_Always(s) ==
    /\ state' = s
    /\ notified' = <<notified[2], s>>
    /\ enteredAt' = IF state # s THEN now ELSE enteredAt

\* setState: change the state and call the listener, only on a change.
setState(s) ==
    /\ state' = s
    /\ notified' = IF state # s THEN <<notified[2], s>> ELSE notified
    /\ enteredAt' = IF state # s THEN now ELSE enteredAt

\* A faulty startOpenTimer: no timer is armed.
startOpenTimer_Forgotten == timers' = timers

\* startOpenTimer: time.AfterFunc(cb.timeout, ...) adds a timer; none is
\* stopped.
startOpenTimer == timers' = timers (+) SetToBag({now + timeout})

\* Two faulty SlotFree: one token too many, one too few.
SlotFree_OffByOne == sem <= limit
SlotFree_Strict == sem + 1 < limit

\* The non-blocking send of Bulkhead.Execute's select succeeds when the
\* channel's buffer is not full.
SlotFree == sem < limit

\* The history of the HalfOpen period, when the state becomes s2: a period
\* lasts while the state stays HalfOpen.
PeriodAfter(s2, succ, inP) ==
    /\ periodSucc' = IF s2 = HalfOpen /\ state = HalfOpen THEN succ ELSE 0
    /\ inPeriod' = IF s2 = HalfOpen /\ state = HalfOpen THEN inP
                   ELSE [q \in Procs |-> FALSE]

\* -------------------------------------------------------------------- Init

Init ==
    /\ hasCB \in BOOLEAN
    /\ hasBH \in BOOLEAN
    /\ cfg \in (IF hasCB THEN BreakerConfigs ELSE {DefaultBreaker})
    /\ limit \in (IF hasBH THEN BulkheadLimits ELSE {DefaultLimit})
    /\ now = 0
    /\ state = Closed
    /\ failureTimes = << >>
    /\ trialCount = 0
    /\ trialStart = 0
    /\ mu = Free
    /\ timers = EmptyBag
    /\ notified = <<None, None>>
    /\ enteredAt = 0
    /\ sem = 0
    /\ pc = [p \in Procs |-> "idle"]
    /\ snap = [p \in Procs |-> Closed]
    /\ err = [p \in Procs |-> Nil]
    /\ ret = [p \in Procs |-> None]
    /\ invoked = [p \in Procs |-> FALSE]
    /\ streak = << >>
    /\ tripped = FALSE
    /\ periodSucc = 0
    /\ inPeriod = [p \in Procs |-> FALSE]
    /\ calls = 0

\* ----------------------------------------------------------------- actions

\* A faulty Call: the bulkhead wraps the breaker, a slot is claimed first.
Call_ClaimsSlot(p) ==
    /\ pc[p] \in {"idle", "done"}
    /\ calls < MaxCalls
    /\ calls' = calls + 1
    /\ sem' = IF hasBH THEN sem + 1 ELSE sem
    /\ IF hasCB
       THEN /\ mu = Free
            /\ mu' = p
            /\ pc' = [pc EXCEPT ![p] = "cs1"]
       ELSE /\ pc' = [pc EXCEPT ![p] = "fn"]
            /\ UNCHANGED mu
    /\ snap' = [snap EXCEPT ![p] = Closed]
    /\ err' = [err EXCEPT ![p] = Nil]
    /\ ret' = [ret EXCEPT ![p] = None]
    /\ invoked' = [invoked EXCEPT ![p] = FALSE]
    /\ UNCHANGED <<config, now, breaker, history>>

\* Client.execute is called: with a breaker, cb.mu.Lock() of Execute's first
\* critical section; without one, fn is next.
Call(p) ==
    /\ pc[p] \in {"idle", "done"}
    /\ calls < MaxCalls
    /\ calls' = calls + 1
    /\ UNCHANGED sem
    /\ IF hasCB
       THEN /\ mu = Free
            /\ mu' = p
            /\ pc' = [pc EXCEPT ![p] = "cs1"]
       ELSE /\ pc' = [pc EXCEPT ![p] = "fn"]
            /\ UNCHANGED mu
    /\ snap' = [snap EXCEPT ![p] = Closed]
    /\ err' = [err EXCEPT ![p] = Nil]
    /\ ret' = [ret EXCEPT ![p] = None]
    /\ invoked' = [invoked EXCEPT ![p] = FALSE]
    /\ UNCHANGED <<config, now, breaker, history>>

\* The trial window has passed: re-open, re-arm the timer, return ErrOpen.
Reopen(p) ==
    /\ setState(Open)
    /\ startOpenTimer
    /\ pc' = [pc EXCEPT ![p] = "done"]
    /\ ret' = [ret EXCEPT ![p] = ErrOpen]
    /\ PeriodAfter(Open, periodSucc, inPeriod)
    /\ UNCHANGED <<failureTimes, trialCount>>

\* A faulty FastFail: the rejection is counted as a failure.
FastFail_Counted(p) ==
    /\ pc' = [pc EXCEPT ![p] = "done"]
    /\ ret' = [ret EXCEPT ![p] = ErrOpen]
    /\ failureTimes' = Append(failureTimes, now)
    /\ UNCHANGED <<state, notified, enteredAt, timers, trialCount, periodSucc, inPeriod>>

\* `if state == Open { return ErrOpen }`
FastFail(p) ==
    /\ pc' = [pc EXCEPT ![p] = "done"]
    /\ ret' = [ret EXCEPT ![p] = ErrOpen]
    /\ UNCHANGED <<state, notified, enteredAt, timers, failureTimes, trialCount,
                   periodSucc, inPeriod>>

\* The snapshot is Closed or HalfOpen: fn is next.
Admit(p) ==
    /\ pc' = [pc EXCEPT ![p] = "fn"]
    /\ inPeriod' = [inPeriod EXCEPT ![p] = (state = HalfOpen)]
    /\ UNCHANGED <<state, notified, enteredAt, timers, failureTimes, trialCount, ret,
                   periodSucc>>

\* A faulty Check: the lock is kept while fn runs.
Check_KeepsLock(p) ==
    /\ pc[p] = "cs1"
    /\ mu' = IF TrialExpired \/ state = Open THEN Free ELSE mu
    /\ snap' = [snap EXCEPT ![p] = state]
    /\ IF TrialExpired THEN Reopen(p)
       ELSE IF state = Open THEN FastFail(p)
       ELSE Admit(p)
    /\ UNCHANGED <<calls, config, now, trialStart, sem, err, invoked, streak,
                   tripped>>

\* Execute's first critical section, and the test of the snapshot after it.
Check(p) ==
    /\ pc[p] = "cs1"
    /\ mu' = Free
    /\ snap' = [snap EXCEPT ![p] = state]
    /\ IF TrialExpired THEN Reopen(p)
       ELSE IF state = Open THEN FastFail(p)
       ELSE Admit(p)
    /\ UNCHANGED <<calls, config, now, trialStart, sem, err, invoked, streak,
                   tripped>>

\* fn starts: the select of Bulkhead.Execute, or the operation itself.
Enter(p) ==
    /\ pc[p] = "fn"
    /\ IF hasBH /\ ~SlotFree
       THEN /\ err' = [err EXCEPT ![p] = IF hasCB THEN ErrFull ELSE Nil]
            /\ pc' = [pc EXCEPT ![p] = IF hasCB THEN "post" ELSE "done"]
            /\ ret' = [ret EXCEPT ![p] = IF hasCB THEN ret[p] ELSE ErrFull]
            /\ UNCHANGED <<sem, invoked>>
       ELSE /\ sem' = IF hasBH THEN sem + 1 ELSE sem
            /\ pc' = [pc EXCEPT ![p] = "op"]
            /\ invoked' = [invoked EXCEPT ![p] = TRUE]
            /\ UNCHANGED <<err, ret>>
    /\ UNCHANGED <<calls, config, now, breaker, mu, snap, history>>

\* A faulty Release: the token is taken out only after a success.
Release_OnSuccess(e) == sem' = IF hasBH /\ e = Nil THEN sem - 1 ELSE sem

\* The deferred receive of Bulkhead.Execute.
Release(e) == sem' = IF hasBH THEN sem - 1 ELSE sem

\* The operation returns e; the bulkhead's deferred release runs.
OpReturn(p, e) ==
    /\ pc[p] = "op"
    /\ Release(e)
    /\ err' = [err EXCEPT ![p] = IF hasCB THEN e ELSE Nil]
    /\ pc' = [pc EXCEPT ![p] = IF hasCB THEN "post" ELSE "done"]
    /\ ret' = [ret EXCEPT ![p] = IF hasCB THEN ret[p] ELSE e]
    /\ UNCHANGED <<calls, config, now, breaker, mu, snap, invoked, history>>

\* cb.mu.Lock() of Execute's second critical section.
Lock2(p) ==
    /\ pc[p] = "post"
    /\ mu = Free
    /\ mu' = p
    /\ pc' = [pc EXCEPT ![p] = "cs2"]
    /\ UNCHANGED <<calls, config, now, breaker, sem, snap, err, ret, invoked, history>>

\* case Closed
RecordClosed(p) ==
    IF IsFailure(err[p])
    THEN LET ft == recordFailure(failureTimes) IN
         IF ThresholdReached(ft)
         THEN /\ failureTimes' = << >>
              /\ trialCount' = 0
              /\ setState(Open)
              /\ startOpenTimer
              /\ streak' = << >>
              /\ tripped' = TRUE
         ELSE /\ failureTimes' = ft
              /\ streak' = Append(streak, now)
              /\ UNCHANGED <<trialCount, state, notified, enteredAt, timers, tripped>>
    ELSE /\ failureTimes' = << >>
         /\ trialCount' = 0
         /\ streak' = << >>
         /\ UNCHANGED <<state, notified, enteredAt, timers, tripped>>

\* A faulty RecordTrialFailure: a failing trial re-opens only once the
\* trial count has reached trialRequests.
RecordTrialFailure_AtLimit(p) ==
    /\ trialCount' = trialCount + 1
    /\ IF TrialComplete(trialCount + 1)
       THEN setState(Open) /\ startOpenTimer
       ELSE UNCHANGED <<state, notified, enteredAt, timers>>
    /\ UNCHANGED <<failureTimes, streak, tripped>>

\* case HalfOpen, err != nil
RecordTrialFailure(p) ==
    /\ trialCount' = trialCount + 1
    /\ setState(Open)
    /\ startOpenTimer
    /\ UNCHANGED <<failureTimes, streak, tripped>>

\* case HalfOpen, err == nil
RecordTrialSuccess(p) ==
    /\ IF TrialComplete(trialCount + 1)
       THEN /\ setState(Closed)
            /\ failureTimes' = << >>
            /\ trialCount' = 0
       ELSE /\ trialCount' = trialCount + 1
            /\ UNCHANGED <<state, notified, enteredAt, failureTimes>>
    /\ streak' = << >>
    /\ UNCHANGED <<timers, tripped>>

\* case HalfOpen
RecordHalfOpen(p) ==
    IF IsFailure(err[p]) THEN RecordTrialFailure(p) ELSE RecordTrialSuccess(p)

\* Execute's second critical section: the switch on the snapshot.
Record(p) ==
    /\ pc[p] = "cs2"
    /\ mu' = Free
    /\ CASE snap[p] = Closed -> RecordClosed(p)
         [] snap[p] = HalfOpen -> RecordHalfOpen(p)
         [] OTHER -> UNCHANGED <<state, failureTimes, trialCount, timers,
                                 notified, enteredAt, streak, tripped>>
    /\ PeriodAfter(state',
                   IF snap[p] = HalfOpen /\ inPeriod[p] /\ err[p] = Nil
                   THEN periodSucc + 1 ELSE periodSucc,
                   [inPeriod EXCEPT ![p] = FALSE])
    /\ ret' = [ret EXCEPT ![p] = Result(err[p])]
    /\ pc' = [pc EXCEPT ![p] = "done"]
    /\ err' = [err EXCEPT ![p] = Nil]
    /\ UNCHANGED <<calls, config, now, trialStart, sem, snap, invoked>>

\* A timer's deadline has passed: its goroutine takes cb.mu.
TimerFire(d) ==
    /\ BagIn(d, timers)
    /\ d <= now
    /\ mu = Free
    /\ mu' = TimerG
    /\ timers' = timers (-) SetToBag({d})
    /\ UNCHANGED <<calls, config, now, state, failureTimes, trialCount, trialStart,
                   notified, enteredAt, sem, locals, history>>

\* The function of startOpenTimer, under cb.mu.
TimerRun ==
    /\ mu = TimerG
    /\ mu' = Free
    /\ setState(HalfOpen)
    /\ trialStart' = now
    /\ trialCount' = 0
    /\ tripped' = FALSE
    /\ PeriodAfter(HalfOpen, periodSucc, inPeriod)
    /\ UNCHANGED <<calls, config, now, failureTimes, timers, sem, locals, streak>>

\* The clock advances.
Tick ==
    /\ now < MaxTime
    /\ now' = now + 1
    /\ UNCHANGED <<calls, config, breaker, mu, sem, locals, history>>

Next ==
    \/ \E p \in Procs : Call(p)
    \/ \E p \in Procs : Check(p)
    \/ \E p \in Procs : Enter(p)
    \/ \E p \in Procs, e \in {Nil, OpErr} : OpReturn(p, e)
    \/ \E p \in Procs : Lock2(p)
    \/ \E p \in Procs : Record(p)
    \/ \E d \in 0..(MaxTime + 1) : TimerFire(d)
    \/ TimerRun
    \/ Tick

Spec == Init /\ [][Next]_vars

\* The scheduling the runtime guarantees: the clock advances; a goroutine
\* that holds cb.mu finishes its critical section; a timer goroutine waiting
\* for cb.mu gets it (sync.Mutex hands the lock to a starving waiter).
\* Callers are not obliged to call.
Fairness ==
    /\ WF_vars(Tick)
    /\ SF_vars(\E d \in 0..(MaxTime + 1) : TimerFire(d))
    /\ WF_vars(TimerRun)
    /\ \A p \in Procs : WF_vars(Check(p)) /\ WF_vars(Record(p))

\* The breaker alone (NewWithBreaker), counting failures without a window.
InitBreaker == Init /\ hasCB /\ ~hasBH /\ window = 0

FairSpec == InitBreaker /\ [][Next]_vars /\ Fairness

\* ------------------------------------------------------- steps, for claims

\* The steps of caller p, recognised by its position before and after.
CallStep(p) == pc[p] \in {"idle", "done"} /\ pc'[p] \in {"cs1", "fn"}
CheckStep(p) == pc[p] = "cs1" /\ pc'[p] # "cs1"
EnterStep(p) == pc[p] = "fn" /\ pc'[p] # "fn"
OpReturnStep(p) == pc[p] = "op" /\ pc'[p] # "op"
RecordStep(p) == pc[p] = "cs2" /\ pc'[p] # "cs2"

\* A timer armed by this step: one more timer with deadline now + timeout.
Armed == timers' = timers (+) SetToBag({now + timeout})

\* The operations running inside the bulkhead.
Running == {p \in Procs : pc[p] = "op"}

\* ------------------------------------------------------------------ claims

\* C1: once maxFailures failures have been recorded in the Closed branch
\* with no recorded success between them, all inside the window (or with
\* window = 0), the state is Open and a timer is armed; and from that trip
\* until a timer runs, every call that passes Execute's first critical
\* section returns ErrOpen without invoking the operation.
C1_InWindow(times) ==
    {i \in DOMAIN times : window = 0 \/ now - times[i] < window}
C1_Trips ==
    \A p \in Procs :
        (/\ RecordStep(p)
         /\ snap[p] = Closed
         /\ err[p] # Nil
         /\ Cardinality(C1_InWindow(Append(streak, now))) >= maxFailures)
        => (state' = Open /\ Armed)
C1_Rejects ==
    \A p \in Procs :
        (CheckStep(p) /\ tripped)
        => (ret'[p] = ErrOpen /\ pc'[p] = "done" /\ ~invoked'[p])
C1_TripsAndRejects == [][C1_Trips /\ C1_Rejects]_vars
\* The first half of C1 alone: the trip itself.
C1_TripsOnly == [][C1_Trips]_vars

\* C2: a call that reads the state as Open returns ErrOpen at once, does
\* not invoke the operation, and leaves the state, the failure record, the
\* trial counters, the pending timers and the lock as they were.
C2_OpenRejectsUnchanged ==
    [][\A p \in Procs :
          (CheckStep(p) /\ state = Open)
          => /\ ret'[p] = ErrOpen
             /\ pc'[p] = "done"
             /\ ~invoked'[p]
             /\ mu' = Free
             /\ UNCHANGED <<state, failureTimes, trialCount, trialStart,
                            timers, notified>>]_vars
C2_Witness ==
    \E p \in Procs :
        /\ pc[p] = "done" /\ snap[p] = Open /\ ret[p] = ErrOpen
        /\ state = Open /\ ~invoked[p]

\* C3: while Open a timer is pending (or running); under fairness of the
\* clock, the timers and the lock, every Open state whose timer falls due
\* within the modelled clock is followed by a HalfOpen state, with no call
\* needed; and a call that then reads HalfOpen inside the trial window goes
\* on to fn.
C3_TimerPending == state = Open => (timers # EmptyBag \/ mu = TimerG)
C3_Due == mu = TimerG \/ \E d \in 0..MaxTime : BagIn(d, timers)
C3_TrialAdmitted ==
    \A p \in Procs :
        (/\ CheckStep(p)
         /\ state = HalfOpen
         /\ (trialDuration = 0 \/ now - trialStart <= trialDuration))
        => (pc'[p] = "fn" /\ ret'[p] = None)
C3_OpenLeadsToHalfOpen ==
    /\ []C3_TimerPending
    /\ (state = Open /\ C3_Due) ~> (state = HalfOpen)
    /\ [][C3_TrialAdmitted]_vars
C3_Witness ==
    \E p \in Procs :
        /\ state = HalfOpen /\ notified[2] = HalfOpen
        /\ pc[p] = "op" /\ snap[p] = HalfOpen /\ invoked[p]

\* C4: a failing trial call (snapshot HalfOpen) leaves the breaker Open with
\* one more timer armed, whatever trialRequests and trialCount are, and
\* returns fn's own failure.
C4_FailedTrialReopens ==
    [][\A p \in Procs :
          (RecordStep(p) /\ snap[p] = HalfOpen /\ err[p] # Nil)
          => (state' = Open /\ Armed /\ ret'[p] = err[p])]_vars
C4_Witness ==
    \E p \in Procs :
        /\ pc[p] = "done" /\ snap[p] = HalfOpen /\ ret[p] = OpErr
        /\ state = Open /\ trialRequests = 2 /\ trialCount = 1
        /\ BagIn(now + timeout, timers)

\* C5: during a HalfOpen period the state becomes Closed exactly in the
\* step that records the N-th successful trial call of that period
\* (N = trialRequests, or 1 when trialRequests = 0), and then the failure
\* record is empty and trialCount is 0.  A trial call of the period is one
\* admitted while the period lasts; the period lasts while the state stays
\* HalfOpen.
C5_Needed == IF trialRequests = 0 THEN 1 ELSE trialRequests
C5_Closes == state = HalfOpen /\ state' = Closed
C5_NthSuccess ==
    \E p \in Procs :
        /\ RecordStep(p)
        /\ state = HalfOpen
        /\ snap[p] = HalfOpen
        /\ inPeriod[p]
        /\ err[p] = Nil
        /\ periodSucc + 1 = C5_Needed
C5_ClosesAtNthSuccess ==
    [][/\ C5_Closes <=> C5_NthSuccess
       /\ C5_Closes => (failureTimes' = << >> /\ trialCount' = 0)]_vars
\* The parts of C5: no closing before the N-th success, none after it.
C5_NotEarlier == [][C5_Closes => C5_NthSuccess]_vars
C5_NotLater == [][C5_NthSuccess => C5_Closes]_vars

\* C6 as stated: a call that finds the breaker HalfOpen more than
\* trialDuration after trialStart re-opens it, arms a timer and returns
\* ErrOpen without invoking the operation; and the state leaves HalfOpen
\* only in a step of a caller's critical section.
C6_Elapsed == state = HalfOpen /\ now - trialStart > trialDuration
C6_Reopened(p) ==
    /\ state' = Open
    /\ Armed
    /\ ret'[p] = ErrOpen
    /\ pc'[p] = "done"
    /\ ~invoked'[p]
C6_OnlyAtCall ==
    (state = HalfOpen /\ state' # HalfOpen)
    => \E p \in Procs : CheckStep(p) \/ RecordStep(p)
C6_ExpiredTrialReopens ==
    [][/\ \A p \in Procs : (CheckStep(p) /\ C6_Elapsed) => C6_Reopened(p)
       /\ C6_OnlyAtCall]_vars
\* C6, amended: the same for trialDuration > 0; trialDuration = 0 sets no
\* trial window, and the call is then admitted.
C6_ExpiredTrialReopensIfSet ==
    [][/\ \A p \in Procs :
            (CheckStep(p) /\ C6_Elapsed)
            => IF trialDuration > 0 THEN C6_Reopened(p)
               ELSE pc'[p] = "fn" /\ UNCHANGED <<state, timers>>
       /\ C6_OnlyAtCall]_vars
C6_Witness ==
    \E p \in Procs :
        /\ pc[p] = "done" /\ snap[p] = HalfOpen /\ ret[p] = ErrOpen
        /\ state = Open /\ trialDuration > 0
        /\ now - trialStart > trialDuration
        /\ BagIn(now + timeout, timers)

\* C7: with a bulkhead of capacity `limit`, at most `limit` operations run
\* inside it at any moment.
C7_AtMostLimitRunning ==
    hasBH => (Cardinality(Running) >= 0 /\ Cardinality(Running) <= limit)
C7_Witness ==
    /\ hasBH
    /\ Cardinality(Running) = limit
    /\ \E p \in Procs : pc[p] = "done" /\ ret[p] = ErrFull

\* C8: the bulkhead's select never waits; it admits the call and the
\* operation runs when fewer than `limit` operations are running, and
\* otherwise returns ErrFull without invoking the operation.
C8_Result(p) == IF hasCB THEN err'[p] ELSE ret'[p]
C8_NeverWaits == \A p \in Procs : pc[p] = "fn" => ENABLED Enter(p)
C8_Decides ==
    \A p \in Procs :
        (hasBH /\ EnterStep(p))
        => IF Cardinality(Running) < limit
           THEN pc'[p] = "op" /\ invoked'[p]
           ELSE /\ pc'[p] # "op"
                /\ ~invoked'[p]
                /\ C8_Result(p) = ErrFull
C8_AdmitsIffSlotFree == []C8_NeverWaits /\ [][C8_Decides]_vars
C8_Witness ==
    \E p, q \in Procs :
        /\ hasBH /\ ~hasCB /\ limit = 1
        /\ pc[q] = "op"
        /\ pc[p] = "done" /\ ret[p] = ErrFull

\* C9: the return of an admitted operation, failed or not, takes exactly
\* one token out of the channel, a rejected call takes none, and with no
\* operation running the channel is empty.
C9_Releases ==
    \A p \in Procs :
        /\ (hasBH /\ OpReturnStep(p)) => sem' = sem - 1
        /\ (hasBH /\ EnterStep(p) /\ pc'[p] # "op") => sem' = sem
C9_Idle == (hasBH /\ Running = {}) => sem = 0
C9_EveryAdmittedCallReleases == []C9_Idle /\ [][C9_Releases]_vars
C9_Witness ==
    /\ hasBH
    /\ Running = {}
    /\ sem = 0
    /\ \A p \in Procs : pc[p] = "done" /\ ret[p] \in {OpErr, ErrFull}
    /\ \E p \in Procs : ret[p] = OpErr

\* C10: with a breaker and a bulkhead, a call that the breaker rejects with
\* ErrOpen changes neither the channel nor the set of running operations,
\* from its first step to its return.
C10_RejectedStep(p) == CallStep(p) \/ (CheckStep(p) /\ ret'[p] = ErrOpen)
C10_RejectedCallKeepsOccupancy ==
    [][\A p \in Procs :
          (hasCB /\ hasBH /\ C10_RejectedStep(p))
          => (sem' = sem /\ Running' = Running)]_vars
C10_Witness ==
    \E p, q \in Procs :
        /\ hasCB /\ hasBH
        /\ pc[p] = "done" /\ ret[p] = ErrOpen /\ ~invoked[p]
        /\ pc[q] = "op" /\ sem = 1

\* C11: with a breaker and a bulkhead, a call the breaker admitted and the
\* bulkhead rejected with ErrFull is recorded as one failure.  Admitted in
\* Closed, the failure record becomes its entries that are still inside the
\* window followed by the present time, or, when that reaches maxFailures,
\* the breaker opens with an empty record and a timer armed; admitted in
\* HalfOpen, the breaker opens and a timer is armed.  The operation was not
\* invoked and the caller receives ErrFull.
C11_Kept ==
    SelectSeq(failureTimes, LAMBDA t : window = 0 \/ t > now - window)
C11_OneFailure(p) ==
    /\ snap[p] = Closed =>
          IF Len(C11_Kept) + 1 >= maxFailures
          THEN state' = Open /\ failureTimes' = << >> /\ Armed
          ELSE /\ failureTimes' = Append(C11_Kept, now)
               /\ state' = state /\ timers' = timers
    /\ snap[p] = HalfOpen => (state' = Open /\ Armed)
    /\ ret'[p] = ErrFull /\ ~invoked'[p]
C11_BulkheadRejectionCounts ==
    [][\A p \in Procs :
          (hasCB /\ hasBH /\ RecordStep(p) /\ err[p] = ErrFull)
          => C11_OneFailure(p)]_vars
C11_Witness ==
    \E p, q \in Procs :
        /\ hasCB /\ hasBH /\ maxFailures = 2
        /\ pc[p] = "done" /\ ret[p] = ErrFull /\ snap[p] = Closed
        /\ ~invoked[p]
        /\ pc[q] = "op" /\ snap[q] = Closed
        /\ state = Open /\ tripped /\ calls = 3

\* C12: the listener is called once for every change of the state, with the
\* new state, and is not called by a step that leaves the state as it was;
\* so its last argument is the present state (once the state has changed at
\* all) and its last two arguments differ.
C12_Notifies ==
    IF state' # state
    THEN notified' = <<notified[2], state'>>
    ELSE notified' = notified
C12_Distinct ==
    /\ notified[2] = (IF notified = <<None, None>> THEN None ELSE state)
    /\ notified # <<None, None>> => notified[1] # notified[2]
    /\ notified = <<None, None>> => state = Closed
C12_OncePerChange == []C12_Distinct /\ [][C12_Notifies]_vars
C12_Witness ==
    /\ state = Open
    /\ notified = <<HalfOpen, Open>>
    /\ \E d \in 0..(MaxTime + 1) : BagIn(d, timers) /\ d > enteredAt + timeout

\* C13: in every composition, a call that invoked the operation returns the
\* operation's own result: what the operation returned is carried unchanged
\* to the second critical section and returned from it (or returned at once
\* when there is no breaker).  A finished call returned ErrOpen or ErrFull
\* exactly when it did not invoke the operation, ErrOpen only from a breaker
\* and ErrFull only from a bulkhead.
C13_Carried ==
    \A p \in Procs :
        /\ (OpReturnStep(p) /\ hasCB) => err'[p] \in {Nil, OpErr}
        /\ (OpReturnStep(p) /\ ~hasCB) => ret'[p] \in {Nil, OpErr}
        /\ pc[p] = "post" => err'[p] = err[p]
        /\ RecordStep(p) => ret'[p] = err[p]
        /\ pc[p] = "done" /\ pc'[p] = "done" => ret'[p] = ret[p]
C13_Sentinels ==
    \A p \in Procs :
        pc[p] = "done" =>
            /\ invoked[p] <=> ret[p] \in {Nil, OpErr}
            /\ ~invoked[p] <=> ret[p] \in {ErrOpen, ErrFull}
            /\ ret[p] = ErrOpen => hasCB
            /\ ret[p] = ErrFull => hasBH
C13_ResultPassesThrough == []C13_Sentinels /\ [][C13_Carried]_vars
C13_Witness ==
    \E p, q \in Procs :
        /\ hasCB /\ hasBH
        /\ pc[p] = "done" /\ invoked[p] /\ ret[p] = OpErr
        /\ snap[p] = HalfOpen /\ state = Open
        /\ pc[q] = "done" /\ ~invoked[q] /\ ret[q] = ErrFull

\* C14: at every moment at most one timer armed by startOpenTimer is
\* pending.
C14_OneTimerPending == BagCardinality(timers) <= 1

\* C15: the state changes only from Closed to Open, from Open to HalfOpen,
\* from HalfOpen to Open and from HalfOpen to Closed.
C15_Edges ==
    {<<Closed, Open>>, <<Open, HalfOpen>>, <<HalfOpen, Open>>,
     <<HalfOpen, Closed>>}
C15_OnlyTableEdges == [][state' # state => <<state, state'>> \in C15_Edges]_vars

\* C16: the breaker leaves Open for HalfOpen no earlier than openTimeout
\* after it last entered Open.
C16_OpenForTimeout ==
    [][(state = Open /\ state' = HalfOpen) => now >= enteredAt + timeout]_vars

\* C17: with trialRequests = N >= 1, at most N calls are admitted during one
\* HalfOpen period: the trials of the period that succeeded so far and the
\* calls admitted in it that are not yet recorded are at most N together.
C17_Admitted == periodSucc + Cardinality({p \in Procs : inPeriod[p]})
C17_BoundedTrials ==
    (hasCB /\ trialRequests >= 1 /\ state = HalfOpen)
    => C17_Admitted <= trialRequests

\* C18: with trialDuration > 0, the breaker does not go from HalfOpen to
\* Closed once more than trialDuration has passed since it became HalfOpen.
C18_NoLateClose ==
    [][(trialDuration > 0 /\ state = HalfOpen /\ state' = Closed)
       => now - enteredAt <= trialDuration]_vars

\* C19: with window > 0, when a failure is recorded in the Closed branch the
\* timestamps older than now - window are dropped and the others, one exactly
\* window old included, are kept; the breaker trips exactly when the kept
\* ones and the new one are at least maxFailures.
C19_Kept == SelectSeq(failureTimes, LAMBDA t : t >= now - window)
C19_Trips == state' = Open /\ failureTimes' = << >> /\ Armed
C19_Recorded(p) ==
    IF Len(C19_Kept) + 1 >= maxFailures
    THEN C19_Trips
    ELSE failureTimes' = Append(C19_Kept, now) /\ timers' = timers
C19_CountsInsideWindow ==
    [][\A p \in Procs :
          (hasCB /\ window > 0 /\ RecordStep(p) /\ snap[p] = Closed
             /\ err[p] # Nil)
          => C19_Recorded(p)]_vars

\* C20: a success recorded in the Closed branch empties the failure record;
\* with window = 0 the breaker trips only when maxFailures failures were
\* recorded with no success between them; and the failure record changes
\* only while the breaker is Closed.
C20_SuccessEmpties ==
    \A p \in Procs :
        (RecordStep(p) /\ snap[p] = Closed /\ err[p] = Nil)
        => failureTimes' = << >>
C20_TripsOnStreak ==
    \A p \in Procs :
        (window = 0 /\ RecordStep(p) /\ snap[p] = Closed /\ tripped'
           /\ err[p] # Nil /\ timers' # timers)
        => Len(streak) + 1 >= maxFailures
C20_OnlyInClosed == failureTimes' # failureTimes => state = Closed
C20_FailuresDoNotAddUp ==
    [][hasCB => (C20_SuccessEmpties /\ C20_TripsOnStreak /\ C20_OnlyInClosed)]_vars
C20_WithoutOnlyInClosed ==
    [][hasCB => (C20_SuccessEmpties /\ C20_TripsOnStreak)]_vars

\* C21: cb.mu is held by a caller exactly in its two critical sections, never
\* while its operation is pending or running; whoever holds the lock can
\* release it, and when the lock is free every caller that waits for it, every
\* new call and every timer that is due can take it, whatever operations are
\* still running.
C21_HeldOnlyInSections ==
    \A p \in Procs : mu = p <=> (hasCB /\ pc[p] \in {"cs1", "cs2"})
C21_HolderReleases ==
    /\ \A p \in Procs : mu = p => ENABLED (Check(p) \/ Record(p))
    /\ mu = TimerG => ENABLED TimerRun
C21_FreeLockCanBeTaken ==
    mu = Free =>
        /\ \A q \in Procs : pc[q] = "post" => ENABLED Lock2(q)
        /\ \A q \in Procs :
              (pc[q] \in {"idle", "done"} /\ calls < MaxCalls) => ENABLED Call(q)
        /\ \A d \in 0..now : BagIn(d, timers) => ENABLED TimerFire(d)
C21_LockNotHeldDuringOperation ==
    C21_HeldOnlyInSections /\ C21_HolderReleases /\ C21_FreeLockCanBeTaken
C21_Witness ==
    \E p, q \in Procs :
        /\ hasCB /\ p # q
        /\ pc[p] = "op" /\ snap[p] = Closed
        /\ state = HalfOpen /\ mu = Free
        /\ pc[q] = "done" /\ invoked[q] /\ ret[q] = OpErr

=============================================================================
